---- MODULE Spec2Model ----
(***************************************************************************)
(* Model of the Firefly image tools of the Sidekick boilerplate:           *)
(*  - the replace-image endpoint (src/api/google/replace-image.js): one    *)
(*    request travelling through main(), the network calls it makes, the   *)
(*    Google Docs occurrence locator and mutation planner, the Sheets cell *)
(*    rewriter, and the remote document on which a submitted batch is      *)
(*    applied one operation at a time (Spec);                              *)
(*  - the generate endpoint (src/api/firefly/generate.js), beside it in    *)
(*    SpecApi;                                                             *)
(*  - the cross-origin headers of both endpoints (SpecCors);               *)
(*  - the locator loop and the token exchange of replace-image, step by    *)
(*    step (SpecScan, SpecAuth);                                           *)
(*  - generateAndReplace() of the Sidekick plugin with its timers          *)
(*    (SpecPlugin), and the plugin's window message listener around it     *)
(*    (SpecMessage).                                                       *)
(***************************************************************************)
EXTENDS Integers, Sequences, FiniteSets, TLC

\* ---------------------------------------------------------------- bounds
MaxDocSize == 3     \* inline elements plus non-paragraph blocks per document
MaxGridSize == 3    \* cells plus empty rows plus empty value ranges per spreadsheet

\* ------------------------------------------------------- program constants
DefaultPlaceholder == <<"{", "{", "i", "m", "a", "g", "e", "s", "}", "}">>
DefaultSizePt == 200

\* ------------------------------------------------------------ generic helpers
Absent == "undefined"

Min(S) == CHOOSE x \in S : \A y \in S : x <= y

SeqsUpTo(S, n) == UNION {[1..k -> S] : k \in 0..n}

NonEmptySeqsUpTo(S, n) == UNION {[1..k -> S] : k \in 1..n}

\* text.indexOf(pat, from): the smallest position >= from (0-based, from
\* clamped to the length of text) at which pat occurs in text, else -1.
IndexOf(text, pat, from) ==
  LET k == IF from > Len(text) THEN Len(text) ELSE from
      cands == {p \in k..(Len(text) - Len(pat)) :
                  SubSeq(text, p + 1, p + Len(pat)) = pat}
  IN IF cands = {} THEN -1 ELSE Min(cands)

\* cell.includes(pat)
Includes(text, pat) == IndexOf(text, pat, 0) # -1

\* ------------------------------------------------------------- the request
\* A docUrl is kept as the two facts the regular expressions of main() read
\* from it: which path prefix it has and the id segment that follows /d/.
DocUrls ==
  {[path |-> p, id |-> ""] : p \in {Absent, ""}}
  \cup {[path |-> p, id |-> i] : p \in {"document", "spreadsheets", "other"},
                                 i \in {"", "D1"}}

\* the placeholder field of a body that has none
NoPlaceholder == <<Absent>>

Placeholders == {NoPlaceholder, <<"{", "{">>}

\* json is "malformed" for a body string JSON.parse rejects
Bodies ==
  {[json |-> "malformed", docUrl |-> [path |-> Absent, id |-> ""], imageUrl |-> Absent,
    placeholder |-> NoPlaceholder, documentId |-> Absent]}
  \cup [json : {"object"}, docUrl : DocUrls, imageUrl : {Absent, "img1"},
        placeholder : Placeholders, documentId : {Absent}]
  \cup [json : {"object"}, docUrl : {u \in DocUrls : u.id = ""}, imageUrl : {"img1"},
        placeholder : {NoPlaceholder}, documentId : {"D2"}]

Methods == {"POST", "OPTIONS"}

\* const isDocs = /https:\/\/docs\.google\.com\/document\/d\//.test(docUrl)
IsDocs(docUrl) == docUrl.path = "document"

\* const isSheets = /https:\/\/docs\.google\.com\/spreadsheets\/d\//.test(docUrl)
IsSheetsLax(docUrl) == docUrl.path \notin {Absent, "", "document"}
IsSheets(docUrl) == docUrl.path = "spreadsheets"

\* the ([^/]+) group after /d/: null when nothing follows
extractDocumentIdFromUrl(docUrl) ==
  IF docUrl.path = "document" /\ docUrl.id # "" THEN docUrl.id ELSE Absent

\* /(?:\/spreadsheets\/d\/)([^/]+)/.exec(docUrl)?.[1]
SpreadsheetIdFromUrl(docUrl) ==
  IF docUrl.path = "spreadsheets" /\ docUrl.id # "" THEN docUrl.id ELSE Absent

\* documentId = (id from the URL) || body.documentId
DocumentIdOf(body) ==
  LET fromUrl == IF IsDocs(body.docUrl) THEN extractDocumentIdFromUrl(body.docUrl)
                 ELSE SpreadsheetIdFromUrl(body.docUrl)
  IN IF fromUrl # Absent THEN fromUrl ELSE body.documentId

\* { placeholder = '{{images}}' } = body
PlaceholderOf(body) ==
  IF body.placeholder = NoPlaceholder THEN DefaultPlaceholder ELSE body.placeholder

\* ------------------------------------------------- the document content tree
\* text of a run: a brace alone, the default placeholder after a brace, the
\* default placeholder twice in a row
RunContents ==
  {<<"{">>, <<"{">> \o DefaultPlaceholder, DefaultPlaceholder \o DefaultPlaceholder}

\* element and block shapes before the document API assigns offsets
ElementShapes ==
  {[kind |-> "textRun", content |-> c] : c \in RunContents}
  \cup {[kind |-> "inlineObjectElement"]}

BlockShapes(n) ==
  {[type |-> "paragraph", elements |-> es] : es \in NonEmptySeqsUpTo(ElementShapes, n)}
  \cup {[type |-> "table"]}

BlockSize(b) == IF b.type = "paragraph" THEN Len(b.elements) ELSE 1

RECURSIVE DocShapesOfSize(_)
DocShapesOfSize(n) ==
  IF n = 0 THEN {<<>>}
  ELSE UNION {{<<b>> \o d : d \in DocShapesOfSize(n - BlockSize(b))} :
                b \in BlockShapes(n)}

DocShapes == UNION {DocShapesOfSize(n) : n \in 1..MaxDocSize}

\* width of an element in the document's flat index space
ElWidth(e) == IF e.kind = "textRun" THEN Len(e.content) ELSE 1

RECURSIVE IndexElements(_, _)
IndexElements(es, at) ==
  IF es = <<>> THEN <<>>
  ELSE LET e == Head(es)
           w == ElWidth(e)
           el == IF e.kind = "textRun"
                 THEN [kind |-> "textRun", content |-> e.content,
                       startIndex |-> at, endIndex |-> at + w]
                 ELSE [kind |-> "inlineObjectElement",
                       startIndex |-> at, endIndex |-> at + w]
       IN <<el>> \o IndexElements(Tail(es), at + w)

RECURSIVE ElsWidth(_)
ElsWidth(es) == IF es = <<>> THEN 0 ELSE ElWidth(Head(es)) + ElsWidth(Tail(es))

\* body.content as the documents.get response carries it: every element with
\* the absolute offsets of its span; offset 0 is the leading section break.
RECURSIVE IndexBlocks(_, _)
IndexBlocks(bs, at) ==
  IF bs = <<>> THEN <<>>
  ELSE LET b == Head(bs) IN
       IF b.type = "paragraph"
       THEN <<[type |-> "paragraph", elements |-> IndexElements(b.elements, at),
               startIndex |-> at, endIndex |-> at + ElsWidth(b.elements)]>>
            \o IndexBlocks(Tail(bs), at + ElsWidth(b.elements))
       ELSE <<[type |-> "table", startIndex |-> at, endIndex |-> at + 1]>>
            \o IndexBlocks(Tail(bs), at + 1)

DocContents == {IndexBlocks(d, 1) : d \in DocShapes}

\* ------------------------------------------------------ Occurrence Locator
\* const absStart = startIndex + pos
AbsStart(startIndex, pos) == startIndex + pos

\* from = pos + placeholder.length
NextFromOverlapping(pos, placeholder) == pos + 1
NextFrom(pos, placeholder) == pos + Len(placeholder)

\* the while (true) loop over one text run
RECURSIVE ScanRun(_, _, _, _)
ScanRun(text, startIndex, placeholder, from) ==
  LET pos == IndexOf(text, placeholder, from) IN
  IF pos = -1 THEN <<>>
  ELSE <<<<AbsStart(startIndex, pos), AbsStart(startIndex, pos) + Len(placeholder)>>>>
       \o ScanRun(text, startIndex, placeholder, NextFrom(pos, placeholder))

\* for (const el of paragraph.elements)
RECURSIVE ScanElements(_, _)
ScanElements(els, placeholder) ==
  IF els = <<>> THEN <<>>
  ELSE LET el == Head(els) IN
       (IF el.kind = "textRun" /\ el.startIndex \in Nat
        THEN ScanRun(el.content, el.startIndex, placeholder, 0)
        ELSE <<>>)
       \o ScanElements(Tail(els), placeholder)

\* for (const block of content)
RECURSIVE LocateOccurrences(_, _)
LocateOccurrences(content, placeholder) ==
  IF content = <<>> THEN <<>>
  ELSE LET block == Head(content) IN
       (IF block.type = "paragraph"
        THEN ScanElements(block.elements, placeholder)
        ELSE <<>>)
       \o LocateOccurrences(Tail(content), placeholder)

\* ---------------------------------------------------- first-image fallback
NoRange == <<>>

\* the scan of one paragraph without the inlineObjectElement test
RECURSIVE FirstElementInElements(_)
FirstElementInElements(els) ==
  IF els = <<>> THEN NoRange
  ELSE LET el == Head(els) IN
       IF el.startIndex \in Nat /\ el.endIndex \in Nat
       THEN <<el.startIndex, el.endIndex>>
       ELSE FirstElementInElements(Tail(els))

\* the scan of one paragraph without the break: the last image wins
RECURSIVE LastImageInElements(_)
LastImageInElements(els) ==
  IF els = <<>> THEN NoRange
  ELSE LET el == Head(els)
           later == LastImageInElements(Tail(els))
       IN IF later # NoRange THEN later
          ELSE IF el.kind = "inlineObjectElement" THEN <<el.startIndex, el.endIndex>>
          ELSE NoRange

RECURSIVE FirstImageInElements(_)
FirstImageInElements(els) ==
  IF els = <<>> THEN NoRange
  ELSE LET el == Head(els) IN
       IF el.kind = "inlineObjectElement" /\ el.startIndex \in Nat /\ el.endIndex \in Nat
       THEN <<el.startIndex, el.endIndex>>
       ELSE FirstImageInElements(Tail(els))

RECURSIVE FirstImageRange(_)
FirstImageRange(content) ==
  IF content = <<>> THEN NoRange
  ELSE LET block == Head(content)
           r == IF block.type = "paragraph"
                THEN FirstImageInElements(block.elements) ELSE NoRange
       IN IF r # NoRange THEN r ELSE FirstImageRange(Tail(content))

\* -------------------------------------------------------- Mutation Planner
\* the comparator of occurrences.sort((a, b) => b[0] - a[0])
CompareAscending(a, b) == a[1] - b[1]
Compare(a, b) == b[1] - a[1]

\* Array.prototype.sort is stable: x goes after every element that does not
\* compare greater than it.
RECURSIVE InsertSorted(_, _)
InsertSorted(x, s) ==
  IF s = <<>> THEN <<x>>
  ELSE IF Compare(Head(s), x) <= 0 THEN <<Head(s)>> \o InsertSorted(x, Tail(s))
       ELSE <<x>> \o s

RECURSIVE SortOccurrences(_)
SortOccurrences(occ) ==
  IF occ = <<>> THEN <<>>
  ELSE InsertSorted(occ[Len(occ)], SortOccurrences(SubSeq(occ, 1, Len(occ) - 1)))

DeleteContentRange(s, e) == [op |-> "deleteContentRange", startIndex |-> s, endIndex |-> e]

InsertInlineImage(s, uri) ==
  [op |-> "insertInlineImage", index |-> s, uri |-> uri,
   width |-> DefaultSizePt, height |-> DefaultSizePt]

\* the two requests pushed for one occurrence
PairInsertFirst(o, uri) == <<InsertInlineImage(o[1], uri), DeleteContentRange(o[1], o[2])>>
Pair(o, uri) == <<DeleteContentRange(o[1], o[2]), InsertInlineImage(o[1], uri)>>

\* for (const [absStart, absEnd] of occurrences) requests.push(...)
RECURSIVE BuildRequests(_, _)
BuildRequests(occ, uri) ==
  IF occ = <<>> THEN <<>> ELSE Pair(Head(occ), uri) \o BuildRequests(Tail(occ), uri)

\* ------------------------------------------------------ Sheet Cell Rewriter
StringCell(v) == [t |-> "string", v |-> v]

CellValues ==
  {StringCell(<<"{">> \o DefaultPlaceholder),   \* text around the placeholder
   StringCell(<<"{">>),                          \* a string without it
   [t |-> "number", v |-> <<"7">>]}              \* not a string

SheetTitle(i) == <<"Sheet", i>>

\* vr.values of one value range, by size: a row counts its cells, an empty
\* row counts one
RECURSIVE GridsOfSize(_)
GridsOfSize(n) ==
  IF n = 0 THEN {<<>>}
  ELSE UNION {{<<row>> \o g : g \in GridsOfSize(n - (IF row = <<>> THEN 1 ELSE Len(row)))} :
                row \in SeqsUpTo(CellValues, n)}

\* one entry of valuesData.valueRanges; range is 'title!A1:Z1000', kept as
\* the pieces that '!' separates
ValueRange(i, rows) == [range |-> <<SheetTitle(i), "A1:Z1000">>, values |-> rows]

\* valuesData.valueRanges for the first k sheets at most, by size: a value
\* range counts its cells and empty rows, one without rows counts one
RECURSIVE ValueRangesOfSize(_, _, _)
ValueRangesOfSize(i, k, n) ==
  IF n = 0 \/ i > k THEN {<<>>}
  ELSE {<<>>} \cup
       UNION {UNION {{<<ValueRange(i, g)>> \o rest :
                        rest \in ValueRangesOfSize(i + 1, k, n - m)} :
                       g \in IF m = 1 THEN GridsOfSize(1) \cup {<<>>} ELSE GridsOfSize(m)} :
                m \in 1..n}

ValueRangeSeqs(k) == ValueRangesOfSize(1, k, MaxGridSize)

\* `=IMAGE("${imageUrl}")`
ImageFormula(imageUrl) == StringCell(<<"=IMAGE(\"", imageUrl, "\")">>)

\* typeof cell === 'string' && cell.includes(placeholder)
CellMatchesAnyString(cell, placeholder) == cell.t = "string"
CellMatches(cell, placeholder) == cell.t = "string" /\ Includes(cell.v, placeholder)

\* row.forEach((cell, c) => { if (...) row[c] = `=IMAGE("${imageUrl}")` })
RewriteRow(row, placeholder, imageUrl) ==
  [c \in 1..Len(row) |->
     IF CellMatches(row[c], placeholder) THEN ImageFormula(imageUrl) ELSE row[c]]

RewriteRows(rows, placeholder, imageUrl) ==
  [r \in 1..Len(rows) |-> RewriteRow(rows[r], placeholder, imageUrl)]

\* let changed = false ... changed = true
Changed(rows, placeholder) ==
  \E r \in 1..Len(rows) : \E c \in 1..Len(rows[r]) : CellMatches(rows[r][c], placeholder)

\* if (changed) data.push(...)
PushAlways(rows, placeholder) == TRUE
PushIfChanged(rows, placeholder) == Changed(rows, placeholder)

\* const [sheet] = range.split('!'); range: `${sheet}!A1`
DataEntry(vr, placeholder, imageUrl) ==
  [range |-> <<vr.range[1], "A1">>, majorDimension |-> "ROWS",
   values |-> RewriteRows(vr.values, placeholder, imageUrl)]

\* valuesData.valueRanges?.forEach(...)
RECURSIVE BuildData(_, _, _)
BuildData(vrs, placeholder, imageUrl) ==
  IF vrs = <<>> THEN <<>>
  ELSE (IF PushIfChanged(Head(vrs).values, placeholder)
        THEN <<DataEntry(Head(vrs), placeholder, imageUrl)>> ELSE <<>>)
       \o BuildData(Tail(vrs), placeholder, imageUrl)

\* meta.sheets.map((s) => s.properties?.title).filter(Boolean)
TitleLists == {<<SheetTitle(1)>>, <<SheetTitle(1), SheetTitle(2)>>}

\* ---- the query of the values:batchGet request
\* A string is a sequence of units: a literal character or word, or a sheet
\* title. Titles here hold unreserved characters only, which
\* encodeURIComponent leaves as they are.
Lit(c) == [lit |-> c]
TitleUnit(t) == [title |-> t]
encodeURIComponent(t) == t

RECURSIVE Join(_, _)
Join(strings, sep) ==
  IF Len(strings) = 0 THEN <<>>
  ELSE IF Len(strings) = 1 THEN strings[1]
  ELSE strings[1] \o sep \o Join(Tail(strings), sep)

\* `${encodeURIComponent(t)}!A:Z`
RangeOfTitle(t) == <<TitleUnit(encodeURIComponent(t)), Lit("!"), Lit("A"), Lit(":"), Lit("Z")>>

\* new URLSearchParams({ ranges: titles.map(...).join('&ranges='), majorDimension: 'ROWS' })
BatchGetParams(titles) ==
  << [name |-> <<Lit("ranges")>>,
      value |-> Join([i \in 1..Len(titles) |-> RangeOfTitle(titles[i])],
                     <<Lit("&"), Lit("ranges"), Lit("=")>>)],
     [name |-> <<Lit("majorDimension")>>, value |-> <<Lit("ROWS")>>] >>

\* the application/x-www-form-urlencoded serializer escapes these characters
Escaped == {"&", "=", "!", ":"}
EscapeUnit(u) == IF "lit" \in DOMAIN u /\ u.lit \in Escaped THEN [esc |-> u.lit] ELSE u
UnescapeUnit(u) == IF "esc" \in DOMAIN u THEN Lit(u.esc) ELSE u
Escape(str) == [i \in 1..Len(str) |-> EscapeUnit(str[i])]
Unescape(str) == [i \in 1..Len(str) |-> UnescapeUnit(str[i])]

\* URLSearchParams serialization (toString): name=value pairs joined by "&"
Serialize(params) ==
  Join([i \in 1..Len(params) |->
          Escape(params[i].name) \o <<Lit("=")>> \o Escape(params[i].value)],
       <<Lit("&")>>)

RECURSIVE Split(_, _)
Split(str, sep) ==
  IF \A i \in 1..Len(str) : str[i] # sep THEN <<str>>
  ELSE LET i == CHOOSE j \in 1..Len(str) :
                  str[j] = sep /\ \A k \in 1..(j - 1) : str[k] # sep
       IN <<SubSeq(str, 1, i - 1)>> \o Split(SubSeq(str, i + 1, Len(str)), sep)

\* the service splits the query at "&", each pair at its first "=", and
\* unescapes names and values
ParsePair(pair) ==
  LET parts == Split(pair, Lit("="))
  IN [name |-> Unescape(parts[1]),
      value |-> Unescape(Join(Tail(parts), <<Lit("=")>>))]
ParseQuery(query) ==
  LET pairs == Split(query, Lit("&")) IN [i \in 1..Len(pairs) |-> ParsePair(pairs[i])]

\* ------------------------------------------------------ the remote document
\* The document held by the Docs service, as a flat sequence of items; every
\* original item remembers the offset it had when the document was read.
RECURSIVE FlatElements(_)
FlatElements(els) ==
  IF els = <<>> THEN <<>>
  ELSE LET el == Head(els) IN
       (IF el.kind = "textRun"
        THEN [i \in 1..Len(el.content) |->
                [k |-> "char", c |-> el.content[i], o |-> el.startIndex + i - 1]]
        ELSE <<[k |-> "image", o |-> el.startIndex]>>)
       \o FlatElements(Tail(els))

RECURSIVE FlatBlocks(_)
FlatBlocks(content) ==
  IF content = <<>> THEN <<>>
  ELSE (IF Head(content).type = "paragraph"
        THEN FlatElements(Head(content).elements)
        ELSE <<[k |-> "struct", o |-> Head(content).startIndex]>>)
       \o FlatBlocks(Tail(content))

Flat(content) == <<[k |-> "struct", o |-> 0]>> \o FlatBlocks(content)

\* positions an item occupies in the offset space; L is the length of an
\* inserted inline image
ItemWidth(it, L) == IF it.k = "newImage" THEN L ELSE 1

RECURSIVE TotalWidth(_, _)
TotalWidth(items, L) ==
  IF items = <<>> THEN 0 ELSE ItemWidth(Head(items), L) + TotalWidth(Tail(items), L)

\* the items at offsets [s, e), off being the offset of the first item
RECURSIVE Covered(_, _, _, _, _)
Covered(items, off, s, e, L) ==
  IF items = <<>> THEN <<>>
  ELSE LET w == ItemWidth(Head(items), L) IN
       (IF w > 0 /\ off >= s /\ off < e THEN <<Head(items)>> ELSE <<>>)
       \o Covered(Tail(items), off + w, s, e, L)

RECURSIVE DeleteRange(_, _, _, _, _)
DeleteRange(items, off, s, e, L) ==
  IF items = <<>> THEN <<>>
  ELSE LET w == ItemWidth(Head(items), L) IN
       (IF w > 0 /\ off >= s /\ off < e THEN <<>> ELSE <<Head(items)>>)
       \o DeleteRange(Tail(items), off + w, s, e, L)

RECURSIVE InsertAt(_, _, _, _, _)
InsertAt(items, off, s, new, L) ==
  IF items = <<>> THEN <<new>>
  ELSE IF off >= s THEN <<new>> \o items
       ELSE <<Head(items)>> \o InsertAt(Tail(items), off + ItemWidth(Head(items), L), s, new, L)

OpValid(items, op, L) ==
  IF op.op = "deleteContentRange"
  THEN op.startIndex < op.endIndex /\ op.endIndex <= TotalWidth(items, L)
  ELSE op.index <= TotalWidth(items, L)

ApplyOp(items, op, L) ==
  IF op.op = "deleteContentRange"
  THEN DeleteRange(items, 0, op.startIndex, op.endIndex, L)
  ELSE InsertAt(items, 0, op.index, [k |-> "newImage", uri |-> op.uri, at |-> op.index], L)

\* ---------------------------------------------------------------- the state
VARIABLES
  endpoint,         \* the web action serving the request
  pc,               \* where main() is: "received", the call it awaits, "done"
  request,          \* [method, body] of the request being served
  env,              \* whether GOOGLE_SA_EMAIL and GOOGLE_SA_PRIVATE_KEY are set
  imgLen,           \* offset positions the Docs service gives an inserted image
  calls,            \* the network calls sent so far, in order
  replies,          \* the upstream replies received so far, in order
  response,         \* the value main() returned
  content,          \* doc.body.content as read
  located,          \* occurrences as pushed by the locator loop
  occurrences,      \* occurrences after occurrences.sort(...)
  firstImageRange,  \* the fallback range
  requests,         \* the batch handed to batchUpdateDoc
  remote,           \* the document held by the Docs service
  applied,          \* requests of the batch the service has applied
  sheetTitles,      \* titles read from the spreadsheet metadata
  valuesQuery,      \* query parameters of the values request, as the service parses them
  valueRanges,      \* valuesData.valueRanges as read
  data,             \* the write-back batch
  cursor,           \* where the locator loop stands: block, element, from, pos
  signing,          \* the promise signJwt() returned
  assertion,        \* the assertion parameter the token request carried
  page,             \* the page the plugin runs in: "docs" or "site"
  imgs,             \* the IMG elements of the page, in document order
  bubble,           \* whether the Docs image bubble is shown
  lastClickedImageEl, \* the IMG last pressed on, if any
  srcOf,            \* the src of each IMG element
  stage,            \* where generateAndReplace() is
  target,           \* the target generateAndReplace() took at its start
  fetches,          \* the fetchWithTimeout calls made, each with its timer
  result,           \* what generateAndReplace() settled with
  message,          \* ev.data of the window message the listener was given
  handler,          \* where the message listener is
  tentative,        \* the image the listener saw selected
  posted,           \* the messages posted back to ev.source, in order
  clickedInFlight   \* history: an IMG other than target was clicked during a call

apiVars == <<endpoint, pc, request, env, imgLen, calls, replies, response, content,
             located, occurrences, firstImageRange, requests, remote, applied,
             sheetTitles, valuesQuery, valueRanges, data>>

scanVars == <<cursor>>
authVars == <<signing, assertion>>
handlerVars == <<message, handler, tentative, posted>>
pluginVars == <<page, imgs, bubble, lastClickedImageEl, srcOf, stage, target, fetches, result,
                handlerVars, clickedInFlight>>

\* what an action of main() does not touch
elsewhere == <<scanVars, authVars, pluginVars>>

vars == <<apiVars, scanVars, authVars, pluginVars>>

Null == "null"
NoCursor == [block |-> 0]
NoResult == [kind |-> "none"]
NoMessage == [type |-> "none", prompt |-> "undefined"]

\* no locator loop is observed step by step
ScanIdle == cursor = NoCursor

\* signJwt() is not observed
AuthIdle == signing = "none" /\ assertion = "none"

\* no plugin runs
PluginIdle ==
  /\ page = "none"
  /\ imgs = <<>>
  /\ bubble = FALSE
  /\ lastClickedImageEl = Null
  /\ srcOf = <<>>
  /\ stage = "none"
  /\ target = Null
  /\ fetches = <<>>
  /\ result = NoResult
  /\ message = NoMessage
  /\ handler = "none"
  /\ tentative = Null
  /\ posted = <<>>
  /\ clickedInFlight = FALSE

docVars == <<content, located, occurrences, firstImageRange, requests, remote, applied>>
sheetVars == <<sheetTitles, valuesQuery, valueRanges, data>>

\* lengths the Docs service may give an inserted inline image
ImageLengths == {0, 1}

NoResponse == [statusCode |-> 0]

\* an upstream reply that is not ok: its status and its body text
Failures == {[status |-> 403, text |-> "denied"], [status |-> 503, text |-> "busy"]}

JNum(n) == [t |-> "number", v |-> n]
JBool(b) == [t |-> "boolean", v |-> b]

TextResponse(code, msg) == [statusCode |-> code, body |-> [kind |-> "text", text |-> msg]]
JsonResponse(code, json) == [statusCode |-> code, body |-> [kind |-> "json", json |-> json]]

\* throw new Error(`${what} ${res.status}: ${t}`) caught by main()
UpstreamErrorWithoutBody(what, f) == TextResponse(500, <<what, ToString(f.status)>>)
UpstreamError(what, f) == TextResponse(500, <<what, ToString(f.status), f.text>>)

Init ==
  /\ endpoint = "replace-image"
  /\ pc = "received"
  /\ request \in [method : Methods, body : Bodies]
  /\ env \in {"configured", "missing"}
  /\ imgLen \in (IF IsDocs(request.body.docUrl) THEN ImageLengths ELSE {1})
  /\ calls = <<>>
  /\ replies = <<>>
  /\ response = NoResponse
  /\ content = <<>>
  /\ located = <<>>
  /\ occurrences = <<>>
  /\ firstImageRange = NoRange
  /\ requests = <<>>
  /\ remote = <<>>
  /\ applied = 0
  /\ sheetTitles = <<>>
  /\ valuesQuery = <<>>
  /\ valueRanges = <<>>
  /\ data = <<>>
  /\ ScanIdle /\ AuthIdle /\ PluginIdle

Return(r) == pc' = "done" /\ response' = r

\* res.ok of an upstream reply
ResOk(r) == r.status \in 200..299

\* an upstream reply that is ok
OkReply == [status |-> 200, text |-> "ok"]

Receive(r) == replies' = Append(replies, r)

\* JSON.parse(request.body) throws inside the try block
StatusOnParseError == 500

\* !saEmail || !saKey, and !clientId || !clientSecret
MissingCredentialsIgnored(e) == FALSE
MissingCredentials(e) == e = "missing"

\* what main() answers before it awaits anything; NoResponse when it goes on
\* to getGoogleAccessToken and the token request is sent
EarlyResponse(req, e) ==
  IF req.method = "OPTIONS" THEN [statusCode |-> 204]
  ELSE IF req.body.json = "malformed"
    THEN TextResponse(StatusOnParseError, <<"Unexpected token">>)
  ELSE IF req.body.docUrl.path \in {Absent, ""} \/ req.body.imageUrl = Absent
    THEN TextResponse(400, <<"Missing docUrl or imageUrl">>)
  ELSE IF ~IsDocs(req.body.docUrl) /\ ~IsSheets(req.body.docUrl)
    THEN TextResponse(400, <<"Unsupported Google URL">>)
  ELSE IF DocumentIdOf(req.body) = Absent
    THEN TextResponse(400, <<"Missing documentId">>)
  ELSE IF MissingCredentials(e)
    THEN TextResponse(500, <<"Missing GOOGLE_SA_EMAIL or GOOGLE_SA_PRIVATE_KEY">>)
  ELSE NoResponse

\* main() up to the first await: validation, then the token request
Main ==
  /\ endpoint = "replace-image"
  /\ pc = "received"
  /\ IF EarlyResponse(request, env) # NoResponse
     THEN Return(EarlyResponse(request, env)) /\ calls' = calls
     ELSE pc' = "token" /\ calls' = <<"token">> /\ response' = response
  /\ UNCHANGED <<elsewhere, endpoint, request, env, imgLen, replies, docVars, sheetVars>>

TokenFail ==
  /\ pc = "token"
  /\ \E f \in Failures : Receive(f) /\ Return(UpstreamError("Google token error", f))
  /\ UNCHANGED <<elsewhere, endpoint, request, env, imgLen, calls, docVars, sheetVars>>

\* the token arrived: the document (or the spreadsheet metadata) is requested
TokenOk ==
  /\ pc = "token"
  /\ Receive(OkReply)
  /\ IF IsDocs(request.body.docUrl)
     THEN pc' = "docsGet" /\ calls' = Append(calls, "docsGet")
     ELSE pc' = "sheetsMeta" /\ calls' = Append(calls, "sheetsMeta")
  /\ UNCHANGED <<elsewhere, endpoint, request, env, imgLen, response, docVars, sheetVars>>

\* a read that is tried once more after a reply that is not ok
DocsGetFailRetry ==
  /\ pc = "docsGet"
  /\ \E f \in Failures :
       /\ Receive(f)
       /\ IF Len(calls) < 3
          THEN pc' = "docsGet" /\ calls' = Append(calls, "docsGet") /\ response' = response
          ELSE Return(UpstreamError("Docs get error", f)) /\ calls' = calls
  /\ UNCHANGED <<elsewhere, endpoint, request, env, imgLen, docVars, sheetVars>>
DocsGetFail ==
  /\ pc = "docsGet"
  /\ \E f \in Failures : Receive(f) /\ Return(UpstreamError("Docs get error", f))
  /\ UNCHANGED <<elsewhere, endpoint, request, env, imgLen, calls, docVars, sheetVars>>

\* the 200 body of a Docs request that found neither placeholder nor image
NoTargetBody == [replaced |-> JNum(0)]

\* the document arrived: locate, fall back, plan, and submit the batch
DocsGetOk ==
  /\ pc = "docsGet"
  /\ Receive(OkReply)
  /\ \E c \in DocContents :
       LET found == LocateOccurrences(c, PlaceholderOf(request.body))
           first == FirstImageRange(c)
           uri == request.body.imageUrl
       IN /\ content' = c
          /\ remote' = Flat(c)
          /\ located' = found
          /\ IF found = <<>>
             THEN /\ occurrences' = <<>>
                  /\ firstImageRange' = first
                  /\ IF first = NoRange
                     THEN /\ Return(JsonResponse(200, NoTargetBody))
                          /\ requests' = <<>>
                          /\ calls' = calls
                     ELSE /\ requests' = Pair(first, uri)
                          /\ pc' = "docsBatchUpdate"
                          /\ calls' = Append(calls, "docsBatchUpdate")
                          /\ response' = response
             ELSE /\ occurrences' = SortOccurrences(found)
                  /\ firstImageRange' = NoRange
                  /\ requests' = BuildRequests(SortOccurrences(found), uri)
                  /\ pc' = "docsBatchUpdate"
                  /\ calls' = Append(calls, "docsBatchUpdate")
                  /\ response' = response
  /\ UNCHANGED <<elsewhere, endpoint, request, env, imgLen, applied, sheetVars>>

\* the Docs service applies the next request of the batch
RemoteApply ==
  /\ pc = "docsBatchUpdate"
  /\ applied < Len(requests)
  /\ OpValid(remote, requests[applied + 1], imgLen)
  /\ remote' = ApplyOp(remote, requests[applied + 1], imgLen)
  /\ applied' = applied + 1
  /\ UNCHANGED <<elsewhere, endpoint, pc, request, env, imgLen, calls, replies, response, content,
                 located, occurrences, firstImageRange, requests, sheetVars>>

\* the batch is refused as a whole: nothing of it stays applied
DocsBatchFail ==
  /\ pc = "docsBatchUpdate"
  /\ \/ applied = 0
     \/ applied < Len(requests) /\ ~OpValid(remote, requests[applied + 1], imgLen)
  /\ remote' = Flat(content)
  /\ applied' = 0
  /\ \E f \in Failures : Receive(f) /\ Return(UpstreamError("Docs batchUpdate error", f))
  /\ UNCHANGED <<elsewhere, endpoint, request, env, imgLen, calls, content, located, occurrences,
                 firstImageRange, requests, sheetVars>>

DocsBatchOk ==
  /\ pc = "docsBatchUpdate"
  /\ applied = Len(requests)
  /\ Receive(OkReply)
  /\ IF located = <<>>
     THEN Return(JsonResponse(200, [replaced |-> JNum(1), type |-> "docs",
                                    mode |-> "first-image"]))
     ELSE Return(JsonResponse(200, [replaced |-> JNum(Len(occurrences)), type |-> "docs"]))
  /\ UNCHANGED <<elsewhere, endpoint, request, env, imgLen, calls, docVars, sheetVars>>

SheetsMetaFail ==
  /\ pc = "sheetsMeta"
  /\ \E f \in Failures : Receive(f) /\ Return(UpstreamError("Sheets get error", f))
  /\ UNCHANGED <<elsewhere, endpoint, request, env, imgLen, calls, docVars, sheetVars>>

\* the metadata arrived: the values of the titled sheets are requested
SheetsMetaOk ==
  /\ pc = "sheetsMeta"
  /\ Receive(OkReply)
  /\ \E titles \in TitleLists :
       /\ sheetTitles' = titles
       /\ valuesQuery' = ParseQuery(Serialize(BatchGetParams(titles)))
  /\ pc' = "sheetsValues"
  /\ calls' = Append(calls, "sheetsValues")
  /\ UNCHANGED <<elsewhere, endpoint, request, env, imgLen, response, docVars, valueRanges, data>>

SheetsValuesFail ==
  /\ pc = "sheetsValues"
  /\ \E f \in Failures : Receive(f) /\ Return(UpstreamError("Sheets values error", f))
  /\ UNCHANGED <<elsewhere, endpoint, request, env, imgLen, calls, docVars, sheetVars>>

\* what the success response of the Sheets path reports as `replaced`
ReplacedSignal(d) == JBool(TRUE)

\* the values arrived: rewrite the cells and, if any changed, write back
SheetsValuesOk ==
  /\ pc = "sheetsValues"
  /\ Receive(OkReply)
  /\ \E vrs \in ValueRangeSeqs(Len(sheetTitles)) :
       LET d == BuildData(vrs, PlaceholderOf(request.body), request.body.imageUrl)
       IN /\ valueRanges' = vrs
          /\ data' = d
          /\ IF Len(d) = 0
             THEN /\ Return(JsonResponse(200, [replaced |-> JNum(0), type |-> "sheets"]))
                  /\ calls' = calls
             ELSE /\ pc' = "sheetsBatchUpdate"
                  /\ calls' = Append(calls, "sheetsBatchUpdate")
                  /\ response' = response
  /\ UNCHANGED <<elsewhere, endpoint, request, env, imgLen, docVars, sheetTitles, valuesQuery>>

SheetsBatchFail ==
  /\ pc = "sheetsBatchUpdate"
  /\ \E f \in Failures : Receive(f) /\ Return(UpstreamError("Sheets batchUpdate error", f))
  /\ UNCHANGED <<elsewhere, endpoint, request, env, imgLen, calls, docVars, sheetVars>>

SheetsBatchOk ==
  /\ pc = "sheetsBatchUpdate"
  /\ Receive(OkReply)
  /\ Return(JsonResponse(200, [replaced |-> ReplacedSignal(data), type |-> "sheets"]))
  /\ UNCHANGED <<elsewhere, endpoint, request, env, imgLen, calls, docVars, sheetVars>>

Next ==
  \/ Main
  \/ TokenFail
  \/ TokenOk
  \/ DocsGetFail
  \/ DocsGetOk
  \/ RemoteApply
  \/ DocsBatchFail
  \/ DocsBatchOk
  \/ SheetsMetaFail
  \/ SheetsMetaOk
  \/ SheetsValuesFail
  \/ SheetsValuesOk
  \/ SheetsBatchFail
  \/ SheetsBatchOk

Spec == Init /\ [][Next]_vars

\* ------------------------------------------------ the generate endpoint
\* src/api/firefly/generate.js serves its request with the same kind of
\* pipeline; it shares endpoint, pc, request, env, calls, replies and
\* response with the replace-image endpoint and leaves the rest alone.
JStr(s) == [t |-> "string", v |-> s]
JNull == [t |-> "null"]

GenerateBodies ==
  {[json |-> "malformed", prompt |-> Absent, size |-> Absent]}
  \cup [json : {"object"}, prompt : {Absent, "", "a cat"}, size : {Absent, "512x512"}]

\* bodies with which the generation API may answer 200
GenerationData ==
  { [outputs |-> <<[seed |-> JNum(1), image |-> [url |-> JStr("https://firefly/1.png")]]>>],
    [outputs |-> <<[seed |-> JNum(1), image |-> [url |-> JStr("")]]>>],
    [outputs |-> <<[seed |-> JNum(1), image |-> [presignedUrl |-> JStr("https://firefly/2.png")]]>>],
    [outputs |-> <<[seed |-> JNum(1)]>>],
    [outputs |-> <<>>],
    [images |-> <<>>] }

\* what an if (...) takes as true
Truthy(v) ==
  \/ v.t = "string" /\ v.v # ""
  \/ v.t = "number" /\ v.v # 0
  \/ v.t = "boolean" /\ v.v

\* data?.outputs?.[0]?.image?.url, JNull standing for undefined
UrlOf(d) ==
  IF "outputs" \notin DOMAIN d THEN JNull
  ELSE IF Len(d.outputs) = 0 THEN JNull
  ELSE IF "image" \notin DOMAIN d.outputs[1] THEN JNull
  ELSE IF "url" \notin DOMAIN d.outputs[1].image THEN JNull
  ELSE d.outputs[1].image.url

\* let imageUrl = null; if (data?.outputs?.[0]?.image?.url) imageUrl = ...
ExtractImageUrlUnchecked(d) == UrlOf(d)
ExtractImageUrl(d) == IF Truthy(UrlOf(d)) THEN UrlOf(d) ELSE JNull

GenerateInit ==
  /\ endpoint = "generate"
  /\ pc = "received"
  /\ request \in [method : Methods, body : GenerateBodies]
  /\ env \in {"configured", "missing"}
  /\ imgLen = 1
  /\ calls = <<>>
  /\ replies = <<>>
  /\ response = NoResponse
  /\ content = <<>>
  /\ located = <<>>
  /\ occurrences = <<>>
  /\ firstImageRange = NoRange
  /\ requests = <<>>
  /\ remote = <<>>
  /\ applied = 0
  /\ sheetTitles = <<>>
  /\ valuesQuery = <<>>
  /\ valueRanges = <<>>
  /\ data = <<>>
  /\ ScanIdle /\ AuthIdle /\ PluginIdle

\* what main() of generate.js answers before the token request is sent
GenerateEarlyResponse(req, e) ==
  IF req.method = "OPTIONS" THEN [statusCode |-> 204]
  ELSE IF req.body.json = "malformed"
    THEN TextResponse(StatusOnParseError, <<"Unexpected token">>)
  ELSE IF req.body.prompt \in {Absent, ""}
    THEN TextResponse(400, <<"Missing prompt">>)
  ELSE IF MissingCredentials(e)
    THEN TextResponse(500, <<"Missing FIREFLY_CLIENT_ID or FIREFLY_CLIENT_SECRET">>)
  ELSE NoResponse

\* main() of generate.js up to the first await
GenerateMain ==
  /\ endpoint = "generate"
  /\ pc = "received"
  /\ IF GenerateEarlyResponse(request, env) # NoResponse
     THEN Return(GenerateEarlyResponse(request, env)) /\ calls' = calls
     ELSE pc' = "imsToken" /\ calls' = <<"imsToken">> /\ response' = response
  /\ UNCHANGED <<elsewhere, endpoint, request, env, imgLen, replies, docVars, sheetVars>>

ImsTokenFail ==
  /\ pc = "imsToken"
  /\ \E f \in Failures : Receive(f) /\ Return(UpstreamError("IMS token error", f))
  /\ UNCHANGED <<elsewhere, endpoint, request, env, imgLen, calls, docVars, sheetVars>>

\* the token arrived: the generation request is sent
ImsTokenOk ==
  /\ pc = "imsToken"
  /\ Receive(OkReply)
  /\ pc' = "generate"
  /\ calls' = Append(calls, "generate")
  /\ UNCHANGED <<elsewhere, endpoint, request, env, imgLen, response, docVars, sheetVars>>

FireflyFail ==
  /\ pc = "generate"
  /\ \E f \in Failures : Receive(f) /\ Return(UpstreamError("Firefly error", f))
  /\ UNCHANGED <<elsewhere, endpoint, request, env, imgLen, calls, docVars, sheetVars>>

\* the generation API answered 200 with d
FireflyOk ==
  /\ pc = "generate"
  /\ Receive(OkReply)
  /\ \E d \in GenerationData :
       Return(JsonResponse(200, [imageUrl |-> ExtractImageUrl(d), raw |-> d]))
  /\ UNCHANGED <<elsewhere, endpoint, request, env, imgLen, calls, docVars, sheetVars>>

GenerateNext ==
  \/ GenerateMain
  \/ ImsTokenFail
  \/ ImsTokenOk
  \/ FireflyFail
  \/ FireflyOk

\* a request to either endpoint
ApiInit == Init \/ GenerateInit
ApiNext == Next \/ GenerateNext
SpecApi == ApiInit /\ [][ApiNext]_vars

\* ------------------------------------------------------ cross-origin headers
\* _shared/cors.js. An origin is a sequence of units: a scheme, a host label,
\* "--", ".", or any other piece of text without a dot.
Schemes == {"https://", "http://"}
HostPrefixes == {<<>>, <<"http://", "evil", "/", "?">>}
Subdomains == {<<"a", "--", "b", "--", "c">>, <<"a", "--", "b">>, <<"a">>}
Domains == {<<"aem", ".", "page">>, <<"aem", ".", "live">>, <<"aem", ".", "dev">>}
HostSuffixes == {<<>>, <<".", "evil", ".", "com">>, <<"s">>}

\* request.headers.origin when there is none (or an empty one)
NoOrigin == <<>>

allowedOrigins ==
  { <<"http://", "localhost", ":", "3000">>,
    <<"https://", "docs", ".", "google", ".", "com">>,
    <<"https://", "docs", ".", "googleusercontent", ".", "com">> }

Origins ==
  {NoOrigin, <<"https://", "evil", ".", "com">>, <<"https://", "docs", ".", "google", ".", "com", ".", "evil", ".", "com">>}
  \cup allowedOrigins
  \cup {pre \o <<sch>> \o sub \o <<".">> \o dom \o suf :
          pre \in HostPrefixes, sch \in Schemes, sub \in Subdomains,
          dom \in Domains, suf \in HostSuffixes}

\* /https:\/\/[^.]+--[^.]+--[^.]+\.aem\.<tld>/.test(o): somewhere in o,
\* "https://", then units without a dot among which two "--" stand with
\* something before, between and after them, then ".aem.<tld>"
TestHosting(o, tld) ==
  \E i \in 1..Len(o) : \E m \in (i + 6)..(Len(o) - 3) :
    /\ o[i] = "https://"
    /\ \A k \in (i + 1)..(m - 1) : o[k] # "."
    /\ \E p \in (i + 2)..(m - 4) : \E q \in (p + 2)..(m - 2) : o[p] = "--" /\ o[q] = "--"
    /\ o[m] = "." /\ o[m + 1] = "aem" /\ o[m + 2] = "." /\ o[m + 3] = tld

allowWildcard(o) == TestHosting(o, "page") \/ TestHosting(o, "live")

isAllowed(origin) ==
  origin # NoOrigin /\ (origin \in allowedOrigins \/ allowWildcard(origin))

buildCorsHeaders(origin) ==
  LET headers == ("access-control-allow-methods" :> <<"GET,POST,OPTIONS">>)
                 @@ ("access-control-allow-headers" :> <<"content-type,authorization,x-api-key">>)
                 @@ ("access-control-max-age" :> <<"86400">>)
  IN IF isAllowed(origin)
     THEN headers @@ ("access-control-allow-origin" :> origin)
     ELSE headers

handleOptions(req) ==
  [statusCode |-> 204, headers |-> buildCorsHeaders(req.headers.origin)]

\* the variables a request that makes no upstream call leaves as they start
NothingFetched ==
  /\ imgLen = 1
  /\ calls = <<>>
  /\ replies = <<>>
  /\ content = <<>>
  /\ located = <<>>
  /\ occurrences = <<>>
  /\ firstImageRange = NoRange
  /\ requests = <<>>
  /\ remote = <<>>
  /\ applied = 0
  /\ sheetTitles = <<>>
  /\ valuesQuery = <<>>
  /\ valueRanges = <<>>
  /\ data = <<>>

\* a request to either endpoint, seen as its method and its origin header
CorsInit ==
  /\ endpoint \in {"replace-image", "generate"}
  /\ pc = "received"
  /\ request \in [method : Methods, headers : [origin : Origins]]
  /\ env = "configured"
  /\ response = NoResponse
  /\ NothingFetched
  /\ ScanIdle /\ AuthIdle /\ PluginIdle

\* if (request?.method === 'OPTIONS') return handleOptions(request)
Preflight ==
  /\ pc = "received"
  /\ request.method = "OPTIONS"
  /\ Return(handleOptions(request))
  /\ UNCHANGED <<elsewhere, endpoint, request, env, imgLen, calls, replies, docVars, sheetVars>>

\* every other response of main() carries headers: cors
RespondWithCors ==
  /\ pc = "received"
  /\ request.method # "OPTIONS"
  /\ \E code \in {200, 400, 500} :
       Return([statusCode |-> code, headers |-> buildCorsHeaders(request.headers.origin)])
  /\ UNCHANGED <<elsewhere, endpoint, request, env, imgLen, calls, replies, docVars, sheetVars>>

CorsNext ==
  \/ Preflight
  \/ RespondWithCors

SpecCors == CorsInit /\ [][CorsNext]_vars

\* ------------------------------------------- the locator loop, step by step
\* The loops of lines 137-156 as the engine runs them, from the moment the
\* document has been read: one step per loop test, indexOf call and push.
\* A body may carry the empty string as its placeholder.
ScanPlaceholders == {NoPlaceholder, <<>>, <<"{", "{">>}

ScanBodies ==
  [json : {"object"}, docUrl : {[path |-> "document", id |-> "D1"]}, imageUrl : {"img1"},
   placeholder : ScanPlaceholders, documentId : {Absent}]

Cursor(block, el, at, from, pos) ==
  [block |-> block, el |-> el, at |-> at, from |-> from, pos |-> pos]

\* occurrences.push([absStart, absEnd]). A scan that advances never pushes
\* the same interval twice in a row, so the list is exact for it; a scan
\* that stands still pushes one interval without end, of which the list
\* keeps one copy.
Push(list, o) == IF list # <<>> /\ list[Len(list)] = o THEN list ELSE Append(list, o)

ScanInit ==
  /\ endpoint = "replace-image"
  /\ pc = "scan"
  /\ request \in [method : {"POST"}, body : ScanBodies]
  /\ env = "configured"
  /\ imgLen = 1
  /\ calls = <<"token", "docsGet">>
  /\ replies = <<OkReply, OkReply>>
  /\ response = NoResponse
  /\ content \in DocContents
  /\ remote = Flat(content)
  /\ located = <<>>
  /\ occurrences = <<>>
  /\ firstImageRange = NoRange
  /\ requests = <<>>
  /\ applied = 0
  /\ sheetTitles = <<>>
  /\ valuesQuery = <<>>
  /\ valueRanges = <<>>
  /\ data = <<>>
  /\ cursor = Cursor(1, 1, "element", 0, -1)
  /\ AuthIdle /\ PluginIdle

\* the element the cursor stands at is a text run with a numeric startIndex
AtTextRun ==
  /\ cursor.block <= Len(content)
  /\ content[cursor.block].type = "paragraph"
  /\ cursor.el <= Len(content[cursor.block].elements)
  /\ content[cursor.block].elements[cursor.el].kind = "textRun"

CurrentRun == content[cursor.block].elements[cursor.el]

\* continue: the next element of the paragraph, or the next block
ScanSkip ==
  /\ pc = "scan"
  /\ cursor.at = "element"
  /\ cursor.block <= Len(content)
  /\ ~AtTextRun
  /\ cursor' = IF /\ content[cursor.block].type = "paragraph"
                  /\ cursor.el <= Len(content[cursor.block].elements)
               THEN Cursor(cursor.block, cursor.el + 1, "element", 0, -1)
               ELSE Cursor(cursor.block + 1, 1, "element", 0, -1)
  /\ UNCHANGED <<apiVars, authVars, pluginVars>>

\* let from = 0
ScanEnterRun ==
  /\ pc = "scan"
  /\ cursor.at = "element"
  /\ AtTextRun
  /\ cursor' = Cursor(cursor.block, cursor.el, "indexOf", 0, -1)
  /\ UNCHANGED <<apiVars, authVars, pluginVars>>

\* const pos = text.indexOf(placeholder, from); if (pos === -1) break
ScanIndexOf ==
  /\ pc = "scan"
  /\ cursor.at = "indexOf"
  /\ LET pos == IndexOf(CurrentRun.content, PlaceholderOf(request.body), cursor.from)
     IN cursor' = IF pos = -1
                  THEN Cursor(cursor.block, cursor.el + 1, "element", 0, -1)
                  ELSE Cursor(cursor.block, cursor.el, "push", cursor.from, pos)
  /\ UNCHANGED <<apiVars, authVars, pluginVars>>

\* occurrences.push([absStart, absEnd]); from = pos + placeholder.length
ScanPush ==
  /\ pc = "scan"
  /\ cursor.at = "push"
  /\ LET placeholder == PlaceholderOf(request.body)
         absStart == AbsStart(CurrentRun.startIndex, cursor.pos)
     IN /\ located' = Push(located, <<absStart, absStart + Len(placeholder)>>)
        /\ cursor' = Cursor(cursor.block, cursor.el, "indexOf",
                            NextFrom(cursor.pos, placeholder), -1)
  /\ UNCHANGED <<endpoint, pc, request, env, imgLen, calls, replies, response, content,
                 occurrences, firstImageRange, requests, remote, applied, sheetVars,
                 authVars, pluginVars>>

\* the loops are over: fall back, plan, and submit the batch
ScanEnd ==
  /\ pc = "scan"
  /\ cursor.at = "element"
  /\ cursor.block > Len(content)
  /\ LET first == FirstImageRange(content)
         uri == request.body.imageUrl
     IN IF located = <<>>
        THEN /\ occurrences' = <<>>
             /\ firstImageRange' = first
             /\ IF first = NoRange
                THEN /\ Return(JsonResponse(200, NoTargetBody))
                     /\ requests' = <<>>
                     /\ calls' = calls
                ELSE /\ requests' = Pair(first, uri)
                     /\ pc' = "docsBatchUpdate"
                     /\ calls' = Append(calls, "docsBatchUpdate")
                     /\ response' = response
        ELSE /\ occurrences' = SortOccurrences(located)
             /\ firstImageRange' = NoRange
             /\ requests' = BuildRequests(SortOccurrences(located), uri)
             /\ pc' = "docsBatchUpdate"
             /\ calls' = Append(calls, "docsBatchUpdate")
             /\ response' = response
  /\ UNCHANGED <<elsewhere, endpoint, request, env, imgLen, replies, content, located,
                 remote, applied, sheetVars>>

ScanNext ==
  \/ ScanSkip
  \/ ScanEnterRun
  \/ ScanIndexOf
  \/ ScanPush
  \/ ScanEnd
  \/ RemoteApply
  \/ DocsBatchFail
  \/ DocsBatchOk

\* the engine runs main() on while a step is left to take, and the Docs
\* service answers a batch it was sent
SpecScan == ScanInit /\ [][ScanNext]_vars /\ WF_vars(ScanNext)

\* ------------------------------------------ the token exchange, step by step
\* getGoogleAccessToken with signJwt beside it: the same requests as Init,
\* followed up to the reply of the token endpoint.
SignedJwt == "header.claim.signature"

\* what a call of the async function signJwt hands back at once
SignJwtCall == [kind |-> "promise"]

\* String(value), as URLSearchParams applies it to each value
StringOf(value) ==
  IF value.kind = "promise" THEN "[object Promise]" ELSE value.text

\* main() up to the first await of getGoogleAccessToken: signJwt is called,
\* its result goes into the parameters as it is, and the token request is sent
AuthMain ==
  /\ endpoint = "replace-image"
  /\ pc = "received"
  /\ IF EarlyResponse(request, env) # NoResponse
     THEN /\ Return(EarlyResponse(request, env))
          /\ UNCHANGED <<calls, signing, assertion>>
     ELSE /\ signing' = "pending"
          /\ assertion' = StringOf(SignJwtCall)
          /\ pc' = "token"
          /\ calls' = <<"token">>
          /\ response' = response
  /\ UNCHANGED <<endpoint, request, env, imgLen, replies, docVars, sheetVars, scanVars,
                 pluginVars>>

\* signJwt returns `${unsigned}.${signature}`
SignJwtFulfils ==
  /\ signing = "pending"
  /\ signing' = "fulfilled"
  /\ UNCHANGED <<apiVars, assertion, scanVars, pluginVars>>

\* the import or signer.sign throws inside signJwt: the promise rejects, and
\* nothing awaits it. The runtime reports the rejection and goes on, or ends
\* the process.
SignJwtRejects ==
  /\ signing = "pending"
  /\ signing' = "rejected"
  /\ \/ pc' = pc
     \/ pc # "done" /\ pc' = "crashed"
  /\ UNCHANGED <<endpoint, request, env, imgLen, calls, replies, response, docVars,
                 sheetVars, assertion, scanVars, pluginVars>>

AuthNext ==
  \/ AuthMain
  \/ SignJwtFulfils
  \/ SignJwtRejects
  \/ TokenFail
  \/ TokenOk

SpecAuth == Init /\ [][AuthNext]_vars

\* ------------------------------------------------------ the Sidekick plugin
\* tools/sidekick/plugins/firefly: generateAndReplace() with its two
\* fetchWithTimeout calls, the mousedown listener, and the timers.
GenerateTimeoutMs == 45000
ReplaceTimeoutMs == 30000

\* no request of main() is served
ApiIdle ==
  /\ endpoint = "none"
  /\ pc = "none"
  /\ request = [method |-> "none"]
  /\ env = "configured"
  /\ response = NoResponse
  /\ NothingFetched

ImgLists == {<<>>, <<"img1">>, <<"img1", "img2">>}

OldSrc == <<"old.png">>

\* `${imageUrl}${imageUrl.includes('?') ? '&' : '?'}v=${Date.now()}`
CacheBusted(imageUrl) == <<imageUrl, "?", "v=", "now">>

\* what /api/firefly/generate may answer: ok with an imageUrl, ok without
\* one, not ok
GenerateReplies ==
  {[ok |-> TRUE, imageUrl |-> "new.png"], [ok |-> TRUE, imageUrl |-> Null],
   [ok |-> FALSE, imageUrl |-> Null]}

\* what /api/google/replace-image may answer
ReplaceReplies == {[ok |-> TRUE, imageUrl |-> Null], [ok |-> FALSE, imageUrl |-> Null]}

PluginInit ==
  /\ page \in {"docs", "site"}
  /\ imgs \in ImgLists
  /\ bubble \in (IF page = "docs" THEN BOOLEAN ELSE {FALSE})
  /\ lastClickedImageEl = Null
  /\ srcOf = [i \in {imgs[k] : k \in DOMAIN imgs} |-> OldSrc]
  /\ stage = "idle"
  /\ target = Null
  /\ fetches = <<>>
  /\ result = NoResult
  /\ message = NoMessage
  /\ handler = "listening"
  /\ tentative = Null
  /\ posted = <<>>
  /\ clickedInFlight = FALSE
  /\ ApiIdle /\ ScanIdle /\ AuthIdle

\* the mousedown listener: an IMG in the event path becomes the last clicked
MouseDown ==
  /\ stage # "none"
  /\ \E el \in {imgs[k] : k \in DOMAIN imgs} \cup {"div"} :
       /\ lastClickedImageEl' = IF el = "div" THEN lastClickedImageEl ELSE el
       /\ clickedInFlight' =
            (clickedInFlight
               \/ (stage \in {"generate", "replace"} /\ el # "div" /\ el # target))
  /\ UNCHANGED <<apiVars, scanVars, authVars, handlerVars, page, imgs, bubble, srcOf, stage,
                 target, fetches, result>>

detectSelectedImageContext ==
  IF page = "docs" THEN lastClickedImageEl
  ELSE IF lastClickedImageEl # Null THEN lastClickedImageEl
  ELSE IF imgs # <<>> THEN imgs[1]
  ELSE Null

\* fetchWithTimeout up to its await: the timer is set and the fetch sent
Fetch(url, body, timeoutMs) ==
  [url |-> url, body |-> body, timeoutMs |-> timeoutMs, state |-> "inFlight",
   timer |-> "armed"]

\* the finally block of fetchWithTimeout: clearTimeout(t) however the fetch
\* settled; a timer that has fired stays fired
TimerAfterSettleOnSuccessOnly(timer, how) ==
  IF timer = "armed" /\ how = "responded" THEN "cleared" ELSE timer
TimerAfterSettle(timer, how) == IF timer = "armed" THEN "cleared" ELSE timer

Settle(f, how) == [f EXCEPT !.state = how, !.timer = TimerAfterSettle(f.timer, how)]

Resolved(r) == [kind |-> "resolved", value |-> r]
Rejected(msg) == [kind |-> "rejected", error |-> msg]

\* generateAndReplace(prompt) up to its first fetch
GenerateAndReplaceCall(prompt) ==
  /\ stage = "idle"
  /\ target' = detectSelectedImageContext
  /\ fetches' = <<Fetch("/api/firefly/generate", [prompt |-> prompt], GenerateTimeoutMs)>>
  /\ stage' = "generate"
  /\ UNCHANGED <<apiVars, scanVars, authVars, clickedInFlight, page, imgs, bubble,
                 lastClickedImageEl, srcOf, result>>

\* api.firefly.generateAndReplace called by the palette itself
GenerateAndReplace == GenerateAndReplaceCall("a cat") /\ UNCHANGED handlerVars

\* the element whose src line 134 sets: the target taken at line 81
ReplacedImageAmbient == detectSelectedImageContext
ReplacedImage == target

\* imgs.indexOf(target), 0-based, else the image nearest to the bubble, else
\* null, written -1
TargetIndexes ==
  IF target # Null /\ \E k \in DOMAIN imgs : imgs[k] = target
  THEN {(CHOOSE k \in DOMAIN imgs : imgs[k] = target) - 1}
  ELSE IF bubble /\ imgs # <<>> THEN {k - 1 : k \in DOMAIN imgs}
  ELSE {-1}

\* the generate call is answered
GenerateResolves ==
  /\ stage = "generate"
  /\ fetches[1].state = "inFlight"
  /\ \E r \in GenerateReplies :
       LET settled == <<Settle(fetches[1], "responded")>> IN
       IF ~r.ok
       THEN /\ result' = Rejected("generate failed")
            /\ stage' = "done"
            /\ fetches' = settled
            /\ srcOf' = srcOf
       ELSE IF r.imageUrl = Null
       THEN /\ result' = Rejected("No imageUrl returned")
            /\ stage' = "done"
            /\ fetches' = settled
            /\ srcOf' = srcOf
       ELSE IF page = "docs"
       THEN /\ \E idx \in TargetIndexes :
                 fetches' = Append(settled,
                   Fetch("/api/google/replace-image",
                         [docUrl |-> "location", targetIndex |-> idx, imageUrl |-> r.imageUrl],
                         ReplaceTimeoutMs))
            /\ stage' = "replace"
            /\ result' = result
            /\ srcOf' = srcOf
       ELSE /\ fetches' = settled
            /\ stage' = "done"
            /\ IF ReplacedImage # Null
               THEN /\ srcOf' = [srcOf EXCEPT ![ReplacedImage] = CacheBusted(r.imageUrl)]
                    /\ result' = Resolved([replaced |-> TRUE, imageUrl |-> r.imageUrl])
               ELSE /\ srcOf' = srcOf
                    /\ result' = Resolved([replaced |-> FALSE, imageUrl |-> r.imageUrl])
  /\ UNCHANGED <<apiVars, scanVars, authVars, handlerVars, clickedInFlight, page, imgs, bubble, lastClickedImageEl, target>>

\* the replace call is answered
ReplaceResolves ==
  /\ stage = "replace"
  /\ fetches[2].state = "inFlight"
  /\ \E r \in ReplaceReplies :
       /\ fetches' = [fetches EXCEPT ![2] = Settle(fetches[2], "responded")]
       /\ result' = IF r.ok
                    THEN Resolved([replaced |-> TRUE, imageUrl |-> fetches[2].body.imageUrl])
                    ELSE Rejected("replace failed")
  /\ stage' = "done"
  /\ UNCHANGED <<apiVars, scanVars, authVars, handlerVars, clickedInFlight, page, imgs, bubble, lastClickedImageEl,
                 srcOf, target>>

\* the fetch in flight fails on its own (network error): the await throws,
\* nothing catches it in generateAndReplace
FetchRejects ==
  /\ stage \in {"generate", "replace"}
  /\ LET k == Len(fetches) IN
       /\ fetches[k].state = "inFlight"
       /\ fetches' = [fetches EXCEPT ![k] = Settle(fetches[k], "failed")]
  /\ result' = Rejected("Failed to fetch")
  /\ stage' = "done"
  /\ UNCHANGED <<apiVars, scanVars, authVars, handlerVars, clickedInFlight, page, imgs, bubble, lastClickedImageEl,
                 srcOf, target>>

\* timeoutMs have passed on a timer that is still set: ctrl.abort(); a fetch
\* still in flight rejects, and generateAndReplace with it
TimerFires ==
  \E k \in DOMAIN fetches :
    /\ fetches[k].timer = "armed"
    /\ IF fetches[k].state = "inFlight"
       THEN /\ fetches' = [fetches EXCEPT ![k] =
                             Settle([fetches[k] EXCEPT !.timer = "fired"], "aborted")]
            /\ result' = Rejected("AbortError")
            /\ stage' = "done"
       ELSE /\ fetches' = [fetches EXCEPT ![k].timer = "fired"]
            /\ UNCHANGED <<result, stage>>
    /\ UNCHANGED <<apiVars, scanVars, authVars, handlerVars, clickedInFlight, page, imgs, bubble, lastClickedImageEl,
                   srcOf, target>>

PluginNext ==
  \/ MouseDown
  \/ GenerateAndReplace
  \/ GenerateResolves
  \/ ReplaceResolves
  \/ FetchRejects
  \/ TimerFires

SpecPlugin == PluginInit /\ [][PluginNext]_vars

\* ------------------------------------------------ the plugin's message listener
\* ev.data of a window message: no data or no type, another type, and
\* 'firefly:generate' with and without a prompt
Messages ==
  {[type |-> Absent, prompt |-> Absent],
   [type |-> "firefly:result", prompt |-> Absent],
   [type |-> "firefly:generate", prompt |-> Absent],
   [type |-> "firefly:generate", prompt |-> "a cat"]}

\* String(data.prompt || '')
PromptOf(d) == IF d.prompt = Absent THEN "" ELSE d.prompt

\* the text of line 150 (in Japanese in the source)
NoTargetMessage == "no image to replace was found (click an image to select it)"

ResultMessage(res) == [type |-> "firefly:result", res |-> res]
ErrorMessage(error) == [type |-> "firefly:result", error |-> error]

\* the listener up to its first network call: a message of another type is
\* dropped; on Google Docs with no clicked image and no bubble the error is
\* posted at once; otherwise generateAndReplace is called. The two reads of
\* lastClickedImageEl (lines 148 and 81) are separated by a microtask only,
\* no mousedown runs between them.
OnMessage ==
  /\ handler = "listening"
  /\ stage = "idle"
  /\ \E d \in Messages :
       /\ message' = d
       /\ IF d.type # "firefly:generate"
          THEN /\ handler' = "returned"
               /\ UNCHANGED <<apiVars, scanVars, authVars, clickedInFlight, page, imgs, bubble,
                              lastClickedImageEl, srcOf, result, stage, target, fetches,
                              tentative, posted>>
          ELSE /\ tentative' = detectSelectedImageContext
               /\ IF detectSelectedImageContext = Null /\ page = "docs" /\ ~bubble
                  THEN /\ posted' = Append(posted, ErrorMessage(NoTargetMessage))
                       /\ handler' = "returned"
                       /\ UNCHANGED <<apiVars, scanVars, authVars, clickedInFlight, page, imgs,
                                      bubble, lastClickedImageEl, srcOf, result, stage, target,
                                      fetches>>
                  ELSE /\ GenerateAndReplaceCall(PromptOf(d))
                       /\ handler' = "awaiting"
                       /\ posted' = posted

\* generateAndReplace has settled: its value is posted as res, what it threw
\* as error
PostResult ==
  /\ handler = "awaiting"
  /\ stage = "done"
  /\ posted' = Append(posted, IF result.kind = "resolved"
                               THEN ResultMessage(result.value)
                               ELSE ErrorMessage(result.error))
  /\ handler' = "returned"
  /\ UNCHANGED <<apiVars, scanVars, authVars, clickedInFlight, page, imgs, bubble,
                 lastClickedImageEl, srcOf, result, stage, target, fetches, message,
                 tentative>>

MessageNext ==
  \/ OnMessage
  \/ PostResult
  \/ MouseDown
  \/ GenerateResolves
  \/ ReplaceResolves
  \/ FetchRejects
  \/ TimerFires

\* a timer that is due fires, and the listener goes on once the call it
\* awaits has settled
SpecMessage ==
  PluginInit /\ [][MessageNext]_vars /\ WF_vars(TimerFires) /\ WF_vars(PostResult)

\* ------------------------------------------------------------------ claims
\* the request is a Docs request whose document has been read
DocRead == content # <<>>

Placeholder == PlaceholderOf(request.body)

\* where the traversal meets an element of the given kind: <<block, element>>
ElementsOfKind(kind) ==
  {bi \in UNION {{<<b, i>> : i \in 1..Len(content[b].elements)} :
                   b \in {x \in 1..Len(content) : content[x].type = "paragraph"}} :
     content[bi[1]].elements[bi[2]].kind = kind}

ElementAt(bi) == content[bi[1]].elements[bi[2]]

\* the text runs and the embedded images the traversal visits
TextRuns == ElementsOfKind("textRun")
Images == ElementsOfKind("inlineObjectElement")

\* local positions at which pat occurs in text
MatchPositions(text, pat) ==
  {p \in 0..(Len(text) - Len(pat)) : \A i \in 1..Len(pat) : text[p + i] = pat[i]}

\* the leftmost non-overlapping matches: a match position is taken exactly
\* when no taken match before it overlaps it
LeftmostMatches(text, pat) ==
  CHOOSE M \in SUBSET MatchPositions(text, pat) :
    \A p \in MatchPositions(text, pat) :
      (p \in M) <=> ~(\E q \in M : q < p /\ p < q + Len(pat))

ExpectedIntervals ==
  UNION {{<<ElementAt(run).startIndex + p, ElementAt(run).startIndex + p + Len(Placeholder)>> :
            p \in LeftmostMatches(ElementAt(run).content, Placeholder)} : run \in TextRuns}

Range(f) == {f[i] : i \in DOMAIN f}

\* C1: once the document is read, the locator's output holds exactly one
\* interval per leftmost non-overlapping placeholder match inside a text run
\* (N matches give N intervals), in ascending document order, pairwise
\* non-overlapping, each starting at run start + local position and as long
\* as the placeholder.
C1_LocatorIntervals ==
  DocRead =>
    /\ LET expected == ExpectedIntervals
       IN Range(located) = expected /\ Len(located) = Cardinality(expected)
    /\ \A i \in 1..Len(located) : located[i][2] - located[i][1] = Len(Placeholder)
    /\ \A i \in 1..(Len(located) - 1) :
         /\ located[i][1] < located[i + 1][1]
         /\ located[i][2] <= located[i + 1][1]

\* a document read with three or more matches, one run having a match
\* position that overlaps an earlier match and is skipped
C1_Witness ==
  /\ DocRead
  /\ Len(located) >= 3
  /\ \E run \in TextRuns :
       LeftmostMatches(ElementAt(run).content, Placeholder)
         # MatchPositions(ElementAt(run).content, Placeholder)

IsPairFor(del, ins, o) ==
  /\ del.op = "deleteContentRange"
  /\ del.startIndex = o[1]
  /\ del.endIndex = o[2]
  /\ ins.op = "insertInlineImage"
  /\ ins.index = o[1]
  /\ ins.uri = request.body.imageUrl

\* C2: for located occurrences the batch is a sequence of pairs
\* (deleteContentRange[start,end), insertInlineImage@start), one pair per
\* occurrence, the delete immediately before its insert, pairs in strictly
\* descending order of start offset.
C2_PlannerPairsDescending ==
  (DocRead /\ located # <<>>) =>
    /\ Len(requests) = 2 * Len(located)
    /\ \A o \in Range(located) :
         \E i \in 1..Len(located) : IsPairFor(requests[2 * i - 1], requests[2 * i], o)
    /\ \A i \in 1..Len(located) :
         \E o \in Range(located) : IsPairFor(requests[2 * i - 1], requests[2 * i], o)
    /\ \A i \in 1..(Len(located) - 1) :
         requests[2 * i - 1].startIndex > requests[2 * i + 1].startIndex

\* a batch planned for occurrences found in two different runs
C2_Witness ==
  /\ pc = "docsBatchUpdate"
  /\ Len(located) >= 2
  /\ \E r1, r2 \in TextRuns :
       /\ r1 # r2
       /\ MatchPositions(ElementAt(r1).content, Placeholder) # {}
       /\ MatchPositions(ElementAt(r2).content, Placeholder) # {}

\* the original characters of the occurrence [s, e)
PlaceholderItems(s, e) ==
  [i \in 1..(e - s) |-> [k |-> "char", c |-> Placeholder[i], o |-> s + i - 1]]

NewImage(s) == [k |-> "newImage", uri |-> request.body.imageUrl, at |-> s]

\* the original document with every range of R replaced by one image at the
\* range's start, everything else kept in place
RECURSIVE Replaced(_, _)
Replaced(items, R) ==
  IF items = <<>> THEN <<>>
  ELSE LET it == Head(items) IN
       (IF \E r \in R : it.o = r[1] THEN <<NewImage(it.o)>>
        ELSE IF \E r \in R : r[1] < it.o /\ it.o < r[2] THEN <<>>
        ELSE <<it>>)
       \o Replaced(Tail(items), R)

\* C3: while the service applies the batch one request at a time, for an
\* inserted image of length 0 or 1, every delete about to be applied covers
\* exactly the placeholder text of its occurrence, and once the whole batch is
\* applied the document is the original with every occurrence replaced by one
\* image at its former start and every other item unchanged and in order.
C3_OffsetStability ==
  (pc = "docsBatchUpdate" /\ located # <<>>) =>
    /\ (applied < Len(requests) /\ requests[applied + 1].op = "deleteContentRange") =>
         Covered(remote, 0, requests[applied + 1].startIndex,
                 requests[applied + 1].endIndex, imgLen)
           = PlaceholderItems(requests[applied + 1].startIndex,
                              requests[applied + 1].endIndex)
    /\ applied = Len(requests) => remote = Replaced(Flat(content), Range(located))

\* a whole batch of three or more pairs applied, two of the occurrences
\* adjacent in the document
C3_Witness ==
  /\ pc = "docsBatchUpdate"
  /\ Len(located) >= 3
  /\ applied = Len(requests)
  /\ \E i \in 1..(Len(located) - 1) : located[i][2] = located[i + 1][1]

FirstImage ==
  ElementAt(CHOOSE im \in Images :
              \A other \in Images : ElementAt(im).startIndex <= ElementAt(other).startIndex)

\* no text run holds the placeholder anywhere
NoOccurrence ==
  \A run \in TextRuns : MatchPositions(ElementAt(run).content, Placeholder) = {}

FallbackCase == DocRead /\ NoOccurrence /\ Images # {}

\* C4: with no placeholder occurrence and at least one embedded image, the
\* target is the span of the first image in traversal order, the batch is
\* delete[start,end) then insert@start, an accepted batch changes that image
\* only and is answered 200 {replaced: 1, type: docs, mode: first-image}.
C4_FirstImageFallback ==
  FallbackCase =>
    /\ firstImageRange = <<FirstImage.startIndex, FirstImage.endIndex>>
    /\ Len(requests) = 2
    /\ IsPairFor(requests[1], requests[2], firstImageRange)
    /\ "docsBatchUpdate" \in Range(calls)
    /\ applied = Len(requests) => remote = Replaced(Flat(content), {firstImageRange})
    /\ (pc = "done" /\ applied = Len(requests)) =>
         /\ response.statusCode = 200
         /\ response.body.json = [replaced |-> JNum(1), type |-> "docs", mode |-> "first-image"]

\* the fallback answered 200 for a document that holds a second image and text
C4_Witness ==
  /\ FallbackCase
  /\ pc = "done"
  /\ response.statusCode = 200
  /\ Cardinality(Images) >= 2
  /\ TextRuns # {}

NoTargetCase == DocRead /\ NoOccurrence /\ Images = {}

\* C5: with neither a placeholder occurrence nor an embedded image there are
\* zero occurrences, no batchUpdate is sent, the document stays as it was and
\* the request has ended with 200 and replaced = 0.
C5_NoTarget ==
  NoTargetCase =>
    /\ located = <<>>
    /\ firstImageRange = NoRange
    /\ requests = <<>>
    /\ calls = <<"token", "docsGet">>
    /\ remote = Flat(content)
    /\ pc = "done"
    /\ response.statusCode = 200
    /\ response.body.kind = "json"
    /\ response.body.json.replaced = JNum(0)

\* a document with text and a table but no placeholder and no image
C5_Witness ==
  /\ NoTargetCase
  /\ pc = "done"
  /\ TextRuns # {}
  /\ \E b \in 1..Len(content) : content[b].type = "table"

\* the request is a Sheets request whose values have been read
ValuesRead ==
  /\ IsSheets(request.body.docUrl)
  /\ \/ pc = "sheetsBatchUpdate"
     \/ pc = "done" /\ response.statusCode = 200
     \/ pc = "done" /\ "sheetsBatchUpdate" \in Range(calls)

\* cell is a string with the placeholder somewhere inside it
ContainsPlaceholder(cell) ==
  /\ cell.t = "string"
  /\ \E p \in 0..(Len(cell.v) - Len(Placeholder)) :
       SubSeq(cell.v, p + 1, p + Len(Placeholder)) = Placeholder

HasMatchingCell(rows) ==
  \E r \in 1..Len(rows) : \E c \in 1..Len(rows[r]) : ContainsPlaceholder(rows[r][c])

\* the value range a write-back entry was built from
SourceOf(d) == CHOOSE vr \in Range(valueRanges) : vr.range[1] = d.range[1]

\* C6: every sheet written back carries the rows that were read, position by
\* position, a cell whose string value contains the placeholder replaced as a
\* whole by =IMAGE("<imageUrl>"), every other cell (non-string cells too)
\* exactly as read; no row or cell is added, dropped or moved.
C6_WriteBackContent ==
  ValuesRead =>
    \A d \in Range(data) :
      /\ \E vr \in Range(valueRanges) : vr.range[1] = d.range[1]
      /\ d.range = <<SourceOf(d).range[1], "A1">>
      /\ Len(d.values) = Len(SourceOf(d).values)
      /\ \A r \in 1..Len(d.values) :
           /\ Len(d.values[r]) = Len(SourceOf(d).values[r])
           /\ \A c \in 1..Len(d.values[r]) :
                d.values[r][c] =
                  IF ContainsPlaceholder(SourceOf(d).values[r][c])
                  THEN [t |-> "string", v |-> <<"=IMAGE(\"", request.body.imageUrl, "\")">>]
                  ELSE SourceOf(d).values[r][c]

\* a sheet written back whose rows hold a replaced cell, a string cell kept
\* and a non-string cell kept
C6_Witness ==
  /\ ValuesRead
  /\ \E d \in Range(data) :
       /\ \E r \in 1..Len(d.values) : \E c \in 1..Len(d.values[r]) :
            /\ d.values[r][c] # SourceOf(d).values[r][c]
            /\ Len(SourceOf(d).values[r][c].v) > Len(Placeholder)
       /\ \E r \in 1..Len(d.values) : \E c \in 1..Len(d.values[r]) :
            d.values[r][c] = SourceOf(d).values[r][c] /\ d.values[r][c].t = "string"
       /\ \E r \in 1..Len(d.values) : \E c \in 1..Len(d.values[r]) :
            d.values[r][c].t = "number"

\* C7: the write-back batch has an entry for a sheet exactly when that sheet
\* has a cell containing the placeholder; when no sheet has one, no
\* values:batchUpdate is sent and the answer is 200 {replaced: 0, type: sheets}.
C7_NoOpAvoidance ==
  ValuesRead =>
    /\ \A vr \in Range(valueRanges) :
         (\E d \in Range(data) : d.range[1] = vr.range[1]) <=> HasMatchingCell(vr.values)
    /\ \A i, j \in 1..Len(data) : data[i].range[1] = data[j].range[1] => i = j
    /\ (\E vr \in Range(valueRanges) : HasMatchingCell(vr.values))
         => "sheetsBatchUpdate" \in Range(calls)
    /\ ~(\E vr \in Range(valueRanges) : HasMatchingCell(vr.values)) =>
         /\ "sheetsBatchUpdate" \notin Range(calls)
         /\ pc = "done"
         /\ response.statusCode = 200
         /\ response.body.json = [replaced |-> JNum(0), type |-> "sheets"]

\* two sheets read, the first without a matching cell and left out, the
\* second with one and written back
C7_Witness ==
  /\ ValuesRead
  /\ Len(valueRanges) = 2
  /\ valueRanges[1].values # <<>>
  /\ ~HasMatchingCell(valueRanges[1].values)
  /\ HasMatchingCell(valueRanges[2].values)
  /\ Len(data) = 1

\* C8: after a successful write-back on the Sheets path the response's
\* `replaced` is the number of sheets modified.
C8_ReplacedCountsSheets ==
  (ValuesRead /\ pc = "done" /\ response.statusCode = 200 /\ data # <<>>) =>
    /\ response.body.json.replaced.t = "number"
    /\ response.body.json.replaced.v = Len(data)

\* a POST whose parsed body lacks docUrl or imageUrl, or whose docUrl matches
\* neither the document nor the spreadsheet pattern
InvalidRequest ==
  /\ request.method = "POST"
  /\ request.body.json = "object"
  /\ \/ request.body.docUrl.path \in {Absent, ""}
     \/ request.body.imageUrl = Absent
     \/ request.body.docUrl.path \notin {"document", "spreadsheets"}

\* C9: a request with a missing docUrl, a missing imageUrl or an unsupported
\* docUrl ends with status 400, and no network call is made in it, none to
\* the token endpoint in particular.
C9_ValidationBeforeNetwork ==
  InvalidRequest =>
    /\ calls = <<>>
    /\ pc \in {"received", "done"}
    /\ pc = "done" => response.statusCode = 400

\* an unsupported URL that carries an id, with imageUrl present and a
\* documentId in the body, answered
C9_Witness ==
  /\ InvalidRequest
  /\ pc = "done"
  /\ request.body.docUrl.path = "other"
  /\ request.body.imageUrl # Absent
  /\ request.body.documentId # Absent

\* C10: a request whose body is a string that is not JSON ends in a 4xx
\* result and makes no network call.
C10_MalformedBodyIs4xx ==
  (request.method = "POST" /\ request.body.json = "malformed" /\ pc = "done") =>
    /\ response.statusCode \in 400..499
    /\ calls = <<>>

\* --------------------------------------------------------- errors and shapes
\* the message of a text response holds the string s
Mentions(msg, s) == \E j \in 1..Len(msg) : msg[j] = s

\* the upstream replies that were not ok
FailedReplies == {i \in 1..Len(replies) : ~ResOk(replies[i])}

\* C11: whenever an upstream call of a replace-image or generate request
\* returned a non-success response, the request has ended with status 500 and
\* a text message that contains the upstream status code and the upstream
\* response body.
C11_UpstreamFailureMapping ==
  \A i \in FailedReplies :
    /\ pc = "done"
    /\ response.statusCode = 500
    /\ response.body.kind = "text"
    /\ Mentions(response.body.text, ToString(replies[i].status))
    /\ Mentions(response.body.text, replies[i].text)

\* a generate request whose token arrived and whose generation call was
\* answered 503
C11_Witness ==
  /\ endpoint = "generate"
  /\ Len(replies) = 2
  /\ ResOk(replies[1])
  /\ replies[2].status = 503

\* the calls of a Docs request, in the order of the pipeline
DocsPipeline == <<"token", "docsGet", "docsBatchUpdate">>

IsPrefix(a, b) == Len(a) <= Len(b) /\ a = SubSeq(b, 1, Len(a))

\* C12: in a Docs request the network calls are an initial part of token
\* exchange, document read, batch submit, each made at most once; a submitted
\* batch deletes only ranges found in the document read by that request; and
\* once a call was answered with a non-success response the request has
\* ended with a failure result, that reply being the last one and answering
\* the last call made.
C12_SequentialNoRetry ==
  IsDocs(request.body.docUrl) =>
    /\ IsPrefix(calls, DocsPipeline)
    /\ Len(replies) <= Len(calls)
    /\ Len(calls) <= Len(replies) + 1
    /\ pc = "done" => Len(replies) = Len(calls)
    /\ Len(calls) = 3 =>
         /\ DocRead
         /\ ResOk(replies[2])
         /\ requests # <<>>
         /\ \A k \in 1..Len(requests) :
              requests[k].op = "deleteContentRange" =>
                <<requests[k].startIndex, requests[k].endIndex>>
                  \in Range(located) \cup {firstImageRange}
    /\ FailedReplies # {} =>
         /\ FailedReplies = {Len(replies)}
         /\ Len(calls) = Len(replies)
         /\ pc = "done"
         /\ response.statusCode = 500

\* a Docs request whose token and document arrived and whose batch submit
\* was answered with a failure
C12_Witness ==
  /\ IsDocs(request.body.docUrl)
  /\ calls = DocsPipeline
  /\ FailedReplies = {3}
  /\ pc = "done"

\* a POST that passes every check main() makes on the request itself
ValidRequest ==
  /\ request.method = "POST"
  /\ request.body.json = "object"
  /\ IF endpoint = "generate"
     THEN request.body.prompt \notin {Absent, ""}
     ELSE /\ request.body.docUrl.path \in {"document", "spreadsheets"}
          /\ request.body.imageUrl # Absent
          /\ request.body.docUrl.id # "" \/ request.body.documentId # Absent

\* C13: when the credentials are missing, a request that is valid otherwise
\* ends with status 500 and a plain-text message, and no network request is
\* sent in it.
C13_ConfigurationError ==
  (env = "missing" /\ ValidRequest) =>
    /\ calls = <<>>
    /\ pc \in {"received", "done"}
    /\ pc = "done" => response.statusCode = 500 /\ response.body.kind = "text"

\* a valid generate request answered while FIREFLY_CLIENT_ID is not set
C13_Witness ==
  /\ env = "missing"
  /\ ValidRequest
  /\ endpoint = "generate"
  /\ pc = "done"

\* the request ended with status 200
Ok200 == pc = "done" /\ response.statusCode = 200

\* C14: every replace-image response with status 200 has a JSON body with a
\* `replaced` field and a `type` field, "docs" for a document URL and
\* "sheets" for a spreadsheet URL.
C14_ReplaceResponseShape ==
  (endpoint = "replace-image" /\ Ok200) =>
    /\ response.body.kind = "json"
    /\ "replaced" \in DOMAIN response.body.json
    /\ "type" \in DOMAIN response.body.json
    /\ response.body.json.type
         = (IF IsDocs(request.body.docUrl) THEN "docs" ELSE "sheets")

\* a generate request that carries no prompt
NoPrompt ==
  /\ endpoint = "generate"
  /\ request.method = "POST"
  /\ request.body.json = "object"
  /\ request.body.prompt \in {Absent, ""}

UrlProvided(raw) ==
  /\ "outputs" \in DOMAIN raw
  /\ Len(raw.outputs) >= 1
  /\ "image" \in DOMAIN raw.outputs[1]
  /\ "url" \in DOMAIN raw.outputs[1].image
  /\ raw.outputs[1].image.url.t = "string"
  /\ raw.outputs[1].image.url.v # ""

HostingOrigin(o) ==
  /\ Len(o) = 10
  /\ o[1] = "https://"
  /\ \A k \in {2, 4, 6} : o[k] \notin {".", "--", "/", "?"} \cup Schemes
  /\ o[3] = "--" /\ o[5] = "--"
  /\ o[7] = "." /\ o[8] = "aem" /\ o[9] = "." /\ o[10] \in {"page", "live"}

AllowListed(o) == o \in allowedOrigins

\* C16: a response carries access-control-allow-origin, echoing the request
\* origin, only when the origin is one of the allow-listed origins or an
\* https origin whose host is a--b--c.aem.page or a--b--c.aem.live; for every
\* other origin, and for a missing one, the header is absent. An OPTIONS
\* request gets status 204 with these headers.
C16_CrossOriginRestriction ==
  pc = "done" =>
    LET o == request.headers.origin
        emitted == "access-control-allow-origin" \in DOMAIN response.headers
    IN /\ emitted => response.headers["access-control-allow-origin"] = o
       /\ emitted => AllowListed(o) \/ HostingOrigin(o)
       /\ request.method = "OPTIONS" => response.statusCode = 204

\* ------------------------------------------------------------- termination
\* C19: for every text run and every placeholder a body can carry, the
\* empty string included, the search loop of each run stops and the request
\* reaches a response.
C19_ScanTerminates == <>(pc = "done")

\* ----------------------------------------------------------- token exchange
\* C20: the token request is sent only after signJwt has completed, its
\* assertion parameter is the signed JWT signJwt produced, and when signing
\* fails no token request is sent and the request ends with status 500.
C20_TokenAfterSigning ==
  /\ calls # <<>> => assertion = SignedJwt
  /\ signing = "pending" => calls = <<>>
  /\ signing = "rejected" => calls = <<>> /\ pc = "done" /\ response.statusCode = 500

\* ------------------------------------------------------------ Sheets read
\* the `ranges` parameters of the values request, in order
RangesParameters ==
  LET IsRanges(param) == param.name = <<Lit("ranges")>>
  IN SelectSeq(valuesQuery, IsRanges)

\* C18: for a spreadsheet with k titled sheets the values:batchGet request
\* carries k separate `ranges` parameters, the i-th one naming columns A to
\* Z of the i-th sheet.
C18_RangesPerSheet ==
  pc \in {"sheetsValues", "sheetsBatchUpdate"} =>
    /\ Len(RangesParameters) = Len(sheetTitles)
    /\ \A i \in 1..Len(sheetTitles) :
         RangesParameters[i].value
           = <<TitleUnit(sheetTitles[i]), Lit("!"), Lit("A"), Lit(":"), Lit("Z")>>

\* ------------------------------------------------------------------ plugin
\* C17: a timer that fires finds its fetch without a response: the fetch is
\* aborted, the call rejects, generateAndReplace has ended with that failure
\* and made no further call. A fetch that got a response or failed on its
\* own has its timer cancelled, so that no abort fires after it. The first
\* call is the generate call, bounded by 45 s, a second call is the replace
\* call, bounded by 30 s, and there is no third.
C17_ClientTimeout ==
  /\ Len(fetches) <= 2
  /\ Len(fetches) >= 1 =>
       fetches[1].url = "/api/firefly/generate" /\ fetches[1].timeoutMs = 45000
  /\ Len(fetches) = 2 =>
       fetches[2].url = "/api/google/replace-image" /\ fetches[2].timeoutMs = 30000
  /\ \A k \in DOMAIN fetches :
       /\ fetches[k].timer = "fired" <=> fetches[k].state = "aborted"
       /\ fetches[k].state = "aborted" =>
            /\ k = Len(fetches)
            /\ stage = "done"
            /\ result.kind = "rejected"
       /\ fetches[k].state \in {"responded", "failed"} => fetches[k].timer = "cleared"
       /\ fetches[k].state = "inFlight" => fetches[k].timer = "armed"

\* the replace call was aborted by its timer after the generate call had
\* been answered
C17_Witness ==
  /\ Len(fetches) = 2
  /\ fetches[1].state = "responded"
  /\ fetches[2].state = "aborted"
  /\ result.kind = "rejected"

\* ------------------------------------------------------- message listener
GenerateReceived == handler # "listening" /\ message.type = "firefly:generate"

OtherReceived == handler # "listening" /\ message.type # "firefly:generate"

\* the listener found no image to act on: none was clicked, the page has
\* none to fall back on, and on Google Docs no bubble points at one
NoTargetDeterminable == GenerateReceived /\ tentative = Null /\ (page = "docs" => ~bubble)

CarriesResOrError(m) ==
  /\ m.type = "firefly:result"
  /\ ("res" \in DOMAIN m) # ("error" \in DOMAIN m)

\* C21: a 'firefly:generate' message leads to exactly one 'firefly:result'
\* message posted back, with res or with error and never with both or
\* neither; when no target image can be determined no network call is made;
\* a message of another type gets no reply and causes no network call.
C21_MessageProtocol ==
  /\ [](/\ Len(posted) <= 1
        /\ \A k \in DOMAIN posted : CarriesResOrError(posted[k])
        /\ NoTargetDeterminable => fetches = <<>>
        /\ OtherReceived => posted = <<>> /\ fetches = <<>>
        /\ handler = "listening" => posted = <<>>)
  /\ (GenerateReceived ~> (handler = "returned" /\ Len(posted) = 1))

\* the rest of C21 without the no-target clause, kept to show what the
\* listener does guarantee
MessageProtocolApartFromNoTarget ==
  /\ [](/\ Len(posted) <= 1
        /\ \A k \in DOMAIN posted : CarriesResOrError(posted[k])
        /\ OtherReceived => posted = <<>> /\ fetches = <<>>)
  /\ (GenerateReceived ~> (handler = "returned" /\ Len(posted) = 1))

\* --------------------------------------------------------- target snapshot
InFlight == stage \in {"generate", "replace"}

\* C22: the target of a call is what detectSelectedImageContext returned
\* when generateAndReplace was invoked and no mousedown changes it
\* afterwards, whatever it does to lastClickedImageEl; an image whose src
\* has changed is that target, on a page that is not Google Docs, after a
\* generate call that was answered with a non-empty imageUrl, and its src is
\* that imageUrl, cache-busted.
C22_TargetSnapshot ==
  /\ [][/\ (stage = "idle" /\ stage' = "generate") => target' = detectSelectedImageContext
        /\ stage # "idle" => target' = target]_vars
  /\ [](\A i \in DOMAIN srcOf :
          srcOf[i] # OldSrc =>
            /\ page = "site"
            /\ i = target
            /\ stage = "done"
            /\ fetches[1].state = "responded"
            /\ result.kind = "resolved"
            /\ result.value.replaced
            /\ result.value.imageUrl # Null
            /\ srcOf[i] = CacheBusted(result.value.imageUrl))

\* another image was clicked while the generate call was in flight, and the
\* image taken at the start is the one that was replaced
C22_Witness ==
  /\ page = "site"
  /\ clickedInFlight
  /\ stage = "done"
  /\ lastClickedImageEl \notin {Null, target}
  /\ target # Null
  /\ srcOf[target] = CacheBusted("new.png")
  /\ srcOf[lastClickedImageEl] = OldSrc

====
